---------------------------- MODULE Spec2Model ----------------------------
(***************************************************************************)
(* The embedding cache and the AI sessions of the pretzelai JupyterLab     *)
(* extension (packages/pretzelai-extension/src/index.ts).                  *)
(*                                                                         *)
(* Embedding cache: getEmbeddings polls every second; each poll reads the  *)
(* per-notebook embeddings file and hands it to createEmbeddings, which    *)
(* keeps, recomputes or drops one entry per cell and saves the new array   *)
(* when the set of its hashes differs from the set of the loaded hashes.   *)
(* Polls do not wait for one another, the save is not awaited, and every   *)
(* `cell.source` is a fresh read of the live cell.                         *)
(***************************************************************************)
EXTENDS Integers, Sequences, FiniteSets, TLC

\* ------------------------------------------------------------------ bounds
MaxRuns   == 2    \* polls / createEmbeddings runs in flight at once
MaxEvents == 4    \* timer firings, cell changes and provider failures
MaxWrites == 1    \* contents.save requests in flight at once
MaxSessions == 3  \* interactions started on the cell in one behaviour
MaxReloads == 1   \* changes of the AI service setting in one behaviour

\* const NUMBER_OF_SIMILAR_CELLS (line 55)
NUMBER_OF_SIMILAR_CELLS == 3

Cells    == {"c1", "c2"}
Texts    == {"", " ", "a", "b"}
RunIds   == 1..MaxRuns
SessIds  == 1..MaxSessions

\* ------------------------------------------------------ external functions
\* String.prototype.trim on the texts of the model.
Trim(s) == IF s = " " THEN "" ELSE s

\* utils.calculateHash: a deterministic, collision-free digest of the text.
calculateHash(s) == <<"sha256", s>>

\* prompt.openaiEmbeddings(...).data[0].embedding for the text sent.
openaiEmbeddings(s) == <<"vec", s>>

\* prompt.getTopSimilarities(query, embeddings, K, ..., excludeId): the entries
\* other than those of the excluded cell, the ones whose text is the query
\* first (highest similarity), each group in the store's order, cut to K.
RECURSIVE Take(_, _)
Take(seq, n) ==
  IF n = 0 \/ seq = <<>> THEN <<>> ELSE <<Head(seq)>> \o Take(Tail(seq), n - 1)
getTopSimilarities(query, store, K, excludeId) ==
  LET eligible == SelectSeq(store, LAMBDA e : e.id # excludeId)
      near == SelectSeq(eligible, LAMBDA e : e.source = query)
      far == SelectSeq(eligible, LAMBDA e : e.source # query)
  IN Take(near \o far, K)

\* utils.isSetsEqual
isSetsEqual(xs, ys) == Cardinality(xs) = Cardinality(ys) /\ \A x \in xs : x \in ys

VARIABLES
  present,        \* ids of the cells of notebook.model.sharedModel.cells
  source,         \* cell id -> the cell's live source text
  fileExists,     \* whether the embeddings file exists on the server
  fileContent,    \* its parsed content: a sequence of Embedding records
  writes,         \* contents.save requests in flight (their contents)
  embeddings,     \* `let embeddings: Embedding[]` (line 356)
  embeddingsSet,  \* FALSE until the first assignment to `embeddings`
  embeddingsOf,   \* history: the notebook whose file `embeddings` was read from
  runs,           \* run slot -> the state of one poll / createEmbeddings call
  last,           \* history: the createEmbeddings run that finished last
  events,         \* counter bounding the behaviour
  containers,     \* the .pretzelParentContainerAI children of the active cell's
                  \* node, in document order, each named by its session
  statusEls,      \* sessions whose status <p> is attached to the cell's node
  sess,           \* session -> one interaction (a command execution that
                  \* opened the input box, or one handleFixError call)
  outputs,        \* the cell's outputs: "none", "error" or "cleared"
  fixButton,      \* whether the cell shows a 'Fix Error with AI' button
  notebook,       \* notebookTracker.currentWidget: the notebook in front
  background,     \* the cells and the embeddings file of the other notebook
  activeCell,     \* id of notebookTracker.activeCell
  registry,       \* the 'aiService' setting stored in the setting registry
  aiService,      \* `let aiService` (line 78)
  aiClient,       \* `let aiClient` (line 82), by kind: "OpenAI", "Azure", "null"
  loading         \* position of the loadSettings call in flight: "idle",
                  \* "plugin" (first await) or "cookie" (second await)

embVars == <<present, source, fileExists, fileContent, writes, embeddings,
             embeddingsSet, embeddingsOf, runs, last, events>>
uiVars == <<containers, statusEls, sess, outputs, fixButton>>
docVars == <<notebook, background, activeCell>>
svcVars == <<registry, aiService, aiClient, loading>>
vars == <<embVars, uiVars, docVars, svcVars>>

\* ------------------------------------------------------------------ helpers
Entry(c, src, h, e) == [id |-> c, source |-> src, hash |-> h, embedding |-> e]

\* embeddings.findIndex(e => e.id === c), 1-based; 0 stands for -1.
RECURSIVE FindFrom(_, _, _)
FindFrom(arr, c, i) ==
  IF i > Len(arr) THEN 0
  ELSE IF arr[i].id = c THEN i
  ELSE FindFrom(arr, c, i + 1)
findIndex(arr, c) == FindFrom(arr, c, 1)

Hashes(arr)  == {arr[i].hash : i \in 1..Len(arr)}
Ids(arr)     == {arr[i].id : i \in 1..Len(arr)}
Entries(arr) == {arr[i] : i \in 1..Len(arr)}
Count(arr, c) == Cardinality({i \in 1..Len(arr) : arr[i].id = c})

\* via: the (aiService, aiClient) arguments of a provider or ranker call.
NoCall == [service |-> "none", client |-> "none"]
Call == [service |-> aiService, client |-> aiClient]
NoTask == [pc |-> "none", index |-> 0, hash |-> <<>>, arg |-> "", emb |-> <<>>,
           outcome |-> "none", via |-> NoCall]
\* History of the run before this one, when this one was polled right after it.
NoPrev == [some |-> FALSE, result |-> <<>>, wrote |-> FALSE, clean |-> FALSE,
           nofail |-> FALSE]
\* st, doc (the notebook of the poll, which fixes `embeddingsPath`), found,
\* loaded, cells, given, task and newArr are the program's; alone,
\* still, failed and prev are history: no other poll was in flight during the
\* run, no cell changed since it was polled, a provider call of it failed.
IdleRun == [st |-> "idle", doc |-> "none", found |-> FALSE, loaded |-> <<>>,
            cells |-> {},
            given |-> {}, task |-> [c \in Cells |-> NoTask], newArr |-> <<>>,
            alone |-> FALSE, still |-> FALSE, failed |-> FALSE, prev |-> NoPrev]
NoLast == [valid |-> FALSE, wrote |-> FALSE, run |-> IdleRun]

\* kind, pc, input, editor and status are the program's: which handler runs,
\* where it is, whether the input box is still inside the container, whether
\* renderEditor was called, the status element's text. torn and rankFailed
\* are history: the container was removed while handleSubmit was awaiting,
\* getTopSimilarities rejected. cell is the cell whose code the interaction
\* edits (`activeCell` of the command's closure, `cellModel` of handleFixError);
\* snap, k and exclude are the `embeddings`, count and id arguments of the
\* getTopSimilarities call; doc (the notebook of the cell) and refreshed (a
\* step of the handler, up to that call, started a poll or a createEmbeddings
\* run) are history.
NoSnap == [called |-> FALSE, set |-> FALSE, of |-> "none", store |-> <<>>]
NoSession == [kind |-> "none", pc |-> "none", input |-> FALSE, editor |-> FALSE,
              status |-> "", torn |-> FALSE, rankFailed |-> FALSE,
              doc |-> "none", snap |-> NoSnap, refreshed |-> FALSE,
              cell |-> "none", k |-> 0, exclude |-> "none", via |-> NoCall]

InFlight == {r \in RunIds : runs[r].st # "idle"}

\* ------------------------------------------------------------------- Init
\* An entry as a completed earlier refresh left it for a cell with text s.
StoredEntry(c, s) == Entry(c, s, calculateHash(s), openaiEmbeddings(s))
InitStores ==
  {<<>>, <<StoredEntry("c1", "a")>>,
   <<StoredEntry("c1", "a"), StoredEntry("c2", "a")>>,
   <<StoredEntry("c1", "a"), StoredEntry("c2", "b")>>}

\* The second notebook: one cell, its embeddings file up to date.
OtherNotebook ==
  [present |-> {"c1"}, source |-> [c \in Cells |-> "b"], fileExists |-> TRUE,
   fileContent |-> <<StoredEntry("c1", "b")>>]

Init ==
  /\ present = Cells
  /\ source \in {[c \in Cells |-> "a"], [c \in Cells |-> IF c = "c1" THEN "a" ELSE "b"]}
  /\ \/ fileExists = FALSE /\ fileContent = <<>>
     \/ fileExists = TRUE /\ fileContent \in InitStores
  /\ writes = {}
  /\ embeddings = <<>>
  /\ embeddingsSet = FALSE
  /\ embeddingsOf = "none"
  /\ notebook = "n1"
  /\ background = OtherNotebook
  /\ activeCell = "c1"
  /\ registry = "OpenAI API key"
  /\ aiService = "Use Pretzel AI Server"
  /\ aiClient = "null"
  /\ loading = "plugin"
  /\ runs = [r \in RunIds |-> IdleRun]
  /\ last = NoLast
  /\ events = 0
  /\ containers = <<>>
  /\ statusEls = {}
  /\ sess = [s \in SessIds |-> NoSession]
  /\ outputs = "none"
  /\ fixButton = FALSE

\* ------------------------------------------------------------ the notebook
\* A change of the notebook's cells ends the stillness of every poll in flight
\* and of the run that finished last.
Disturbed ==
  /\ UNCHANGED <<uiVars, docVars, svcVars>>
  /\ runs' = [r \in RunIds |-> [runs[r] EXCEPT !.still = FALSE]]
  /\ last' = [last EXCEPT !.run.still = FALSE]

EditCell(c, s) ==
  /\ events < MaxEvents
  /\ c \in present /\ s # source[c]
  /\ source' = [source EXCEPT ![c] = s]
  /\ events' = events + 1
  /\ Disturbed
  /\ UNCHANGED <<present, fileExists, fileContent, writes, embeddings,
                 embeddingsSet, embeddingsOf>>

RemoveCell(c) ==
  /\ events < MaxEvents
  /\ c \in present
  /\ present' = present \ {c}
  /\ events' = events + 1
  /\ Disturbed
  /\ UNCHANGED <<source, fileExists, fileContent, writes, embeddings,
                 embeddingsSet, embeddingsOf>>

AddCell(c, s) ==
  /\ events < MaxEvents
  /\ c \notin present
  /\ present' = present \cup {c}
  /\ source' = [source EXCEPT ![c] = s]
  /\ events' = events + 1
  /\ Disturbed
  /\ UNCHANGED <<fileExists, fileContent, writes, embeddings, embeddingsSet, embeddingsOf>>

\* ------------------------------------------------------------ getEmbeddings
\* History for a poll issued while nothing else is in flight: what the run
\* before it left in the file, provided its save (if any) is what is there.
PrevOf ==
  IF last.valid /\ InFlight = {}
  THEN [some |-> TRUE,
        result |-> IF last.wrote THEN last.run.newArr ELSE last.run.loaded,
        wrote |-> last.wrote,
        clean |-> last.run.alone /\ last.run.still,
        nofail |-> ~last.run.failed]
  ELSE NoPrev

\* The timer fires (lines 424-433, 453): contents.get(embeddingsPath) is
\* issued and served; its answer is in flight.
Poll(r) ==
  /\ runs[r].st = "idle"
  /\ \A q \in RunIds : q < r => runs[q].st # "idle"
  /\ runs' = [q \in RunIds |->
                IF q = r
                THEN [IdleRun EXCEPT !.st = "get", !.doc = notebook,
                                     !.found = fileExists,
                                     !.loaded = fileContent,
                                     !.alone = (InFlight = {}), !.still = TRUE,
                                     !.prev = PrevOf]
                ELSE [runs[q] EXCEPT !.alone = FALSE]]
  /\ UNCHANGED <<present, source, fileExists, fileContent, writes, embeddings,
                 embeddingsSet, embeddingsOf, last, uiVars, docVars, svcVars>>

GetEmbeddings(r) ==
  /\ events < MaxEvents
  /\ Poll(r)
  /\ events' = events + 1

\* .catch: the get was rejected; an empty store is saved (lines 445-451).
GetCatch(r) ==
  /\ runs[r].st = "get" /\ ~runs[r].found
  /\ Cardinality(writes \cup {<<>>}) <= MaxWrites
  /\ writes' = writes \cup {<<>>}
  /\ runs' = [runs EXCEPT ![r] = IdleRun]
  /\ UNCHANGED <<present, source, fileExists, fileContent, embeddings,
                 embeddingsSet, embeddingsOf, last, events, uiVars, docVars, svcVars>>

\* The save request reaches the contents service.
WriteLand(w) ==
  /\ w \in writes
  /\ fileExists' = TRUE
  /\ fileContent' = w
  /\ writes' = writes \ {w}
  /\ UNCHANGED <<present, source, embeddings, embeddingsSet, embeddingsOf, runs, last, events,
                 uiVars, docVars, svcVars>>

\* --------------------------------------------------------- createEmbeddings
AllSettled(run) == \A c \in run.given : run.task[c].pc = "done"

\* A comparison of the two arrays themselves, order included, in place of
\* the comparison of their sets of hashes.
DiffersAsArrays(run, emb) == run.newArr # emb

\* Lines 412-414: the hash sets of `embeddings` and of the new array differ.
Differs(run, emb) == ~isSetsEqual(Hashes(emb), Hashes(run.newArr))

\* Lines 414-420: contents.save(path, newEmbeddingsArray) when they differ.
WritesAfter(run, emb) ==
  IF Differs(run, emb) THEN writes \cup {run.newArr} ELSE writes

\* The run's state after one of its steps: a settled run ends here, because
\* nothing can run between the last promise settling and lines 412-420.
Settle(r, run, emb) ==
  /\ UNCHANGED <<uiVars, docVars, svcVars>>
  /\ IF AllSettled(run)
     THEN /\ Cardinality(WritesAfter(run, emb)) <= MaxWrites
          /\ writes' = WritesAfter(run, emb)
          /\ runs' = [runs EXCEPT ![r] = IdleRun]
          /\ last' = [valid |-> TRUE, wrote |-> Differs(run, emb),
                      run |-> [run EXCEPT !.st = "idle"]]
     ELSE /\ writes' = writes
          /\ runs' = [runs EXCEPT ![r] = run]
          /\ last' = last

\* The per-cell async function up to its first await (lines 368-371, 392-397).
StartTask(arr, c) ==
  LET i == findIndex(arr, c) IN
  IF i # 0
  THEN [NoTask EXCEPT !.pc = "hashFound", !.index = i,
                      !.hash = calculateHash(source[c])]
  ELSE [NoTask EXCEPT !.pc = "embNew", !.arg = source[c], !.via = Call]

\* Line 366: the cells whose trimmed source is not empty.
NonEmptyCells == {c \in present : Trim(source[c]) # ""}

\* .then: the file was read; createEmbeddings runs up to its first awaits.
GetThen(r) ==
  /\ runs[r].st = "get" /\ runs[r].found
  /\ embeddings' = runs[r].loaded
  /\ embeddingsSet' = TRUE
  /\ embeddingsOf' = runs[r].doc
  /\ LET run == [runs[r] EXCEPT !.st = "collect", !.cells = present,
                   !.given = NonEmptyCells,
                   !.task = [c \in Cells |-> IF c \in NonEmptyCells
                                             THEN StartTask(runs[r].loaded, c)
                                             ELSE NoTask]]
     IN Settle(r, run, runs[r].loaded)
  /\ UNCHANGED <<present, source, fileExists, fileContent, events>>

Push(run, c, e, how) ==
  [run EXCEPT !.newArr = Append(run.newArr, e),
              !.task[c].pc = "done", !.task[c].outcome = how]

Drop(run, c, how) ==
  [run EXCEPT !.task[c].pc = "done", !.task[c].outcome = how]

\* calculateHash resolved in the branch `index !== -1` (lines 371-390).
\* `embeddings[index]` is read from the variable as it is now; past the end of
\* the array it is undefined and `.hash` throws, which rejects the promise.
HashFoundStep(run, c) ==
  LET t == run.task[c] IN
  IF t.index > Len(embeddings) THEN Drop(run, c, "threw")
  ELSE IF t.hash # embeddings[t.index].hash
       THEN [run EXCEPT !.task[c].pc = "embFound", !.task[c].arg = source[c],
                        !.task[c].via = Call]
       ELSE Push(run, c, embeddings[t.index], "kept")

HashFound(r, c) ==
  /\ runs[r].st = "collect" /\ c \in runs[r].given
  /\ runs[r].task[c].pc = "hashFound"
  /\ Settle(r, HashFoundStep(runs[r], c), embeddings)
  /\ UNCHANGED <<present, source, fileExists, fileContent, embeddings,
                 embeddingsSet, embeddingsOf, events>>

\* openaiEmbeddings resolved in the branch `index !== -1` (lines 379-384).
EmbFoundStep(run, c) ==
  LET t == run.task[c] IN
  Push(run, c, Entry(c, source[c], t.hash, openaiEmbeddings(t.arg)), "computed")

EmbFound(r, c) ==
  /\ runs[r].st = "collect" /\ c \in runs[r].given
  /\ runs[r].task[c].pc = "embFound"
  /\ Settle(r, EmbFoundStep(runs[r], c), embeddings)
  /\ UNCHANGED <<present, source, fileExists, fileContent, embeddings,
                 embeddingsSet, embeddingsOf, events>>

\* openaiEmbeddings resolved in the branch `index === -1` (lines 393-398).
EmbNewStep(run, c) ==
  [run EXCEPT !.task[c].pc = "hashNew",
              !.task[c].emb = openaiEmbeddings(run.task[c].arg),
              !.task[c].hash = calculateHash(source[c])]

EmbNew(r, c) ==
  /\ runs[r].st = "collect" /\ c \in runs[r].given
  /\ runs[r].task[c].pc = "embNew"
  /\ Settle(r, EmbNewStep(runs[r], c), embeddings)
  /\ UNCHANGED <<present, source, fileExists, fileContent, embeddings,
                 embeddingsSet, embeddingsOf, events>>

\* A last step that also assigns the array collected so far to `embeddings`.
HashNewPublishes(r, c) ==
  /\ runs[r].st = "collect" /\ c \in runs[r].given
  /\ runs[r].task[c].pc = "hashNew"
  /\ Settle(r, [runs[r] EXCEPT !.newArr =
                  Append(@, Entry(c, source[c], runs[r].task[c].hash,
                                  runs[r].task[c].emb)),
                  !.task[c].pc = "done", !.task[c].outcome = "computed"],
            embeddings)
  /\ embeddings' = Append(runs[r].newArr,
                          Entry(c, source[c], runs[r].task[c].hash,
                                runs[r].task[c].emb))
  /\ UNCHANGED <<present, source, fileExists, fileContent, embeddingsSet, embeddingsOf, events>>

\* calculateHash resolved in the branch `index === -1` (lines 398-404).
HashNewStep(run, c) ==
  LET t == run.task[c] IN
  Push(run, c, Entry(c, source[c], t.hash, t.emb), "computed")

HashNew(r, c) ==
  /\ runs[r].st = "collect" /\ c \in runs[r].given
  /\ runs[r].task[c].pc = "hashNew"
  /\ Settle(r, HashNewStep(runs[r], c), embeddings)
  /\ UNCHANGED <<present, source, fileExists, fileContent, embeddings,
                 embeddingsSet, embeddingsOf, events>>

\* openaiEmbeddings rejected (lines 385-387, 405-407): the catch logs the
\* error and pushes nothing.
EmbFailStep(run, c) == [Drop(run, c, "failed") EXCEPT !.failed = TRUE]

EmbFail(r, c) ==
  /\ events < MaxEvents
  /\ runs[r].st = "collect" /\ c \in runs[r].given
  /\ runs[r].task[c].pc \in {"embFound", "embNew"}
  /\ Settle(r, EmbFailStep(runs[r], c), embeddings)
  /\ events' = events + 1
  /\ UNCHANGED <<present, source, fileExists, fileContent, embeddings,
                 embeddingsSet, embeddingsOf>>

\* ------------------------------------------------------------------- Next
Next ==
  \/ \E c \in Cells, s \in Texts : EditCell(c, s)
  \/ \E c \in Cells : RemoveCell(c)
  \/ \E c \in Cells, s \in Texts : AddCell(c, s)
  \/ \E r \in RunIds : GetEmbeddings(r)
  \/ \E r \in RunIds : GetCatch(r)
  \/ \E r \in RunIds : GetThen(r)
  \/ \E w \in writes : WriteLand(w)
  \/ \E r \in RunIds, c \in Cells : HashFound(r, c)
  \/ \E r \in RunIds, c \in Cells : EmbFound(r, c)
  \/ \E r \in RunIds, c \in Cells : EmbNew(r, c)
  \/ \E r \in RunIds, c \in Cells : HashNew(r, c)
  \/ \E r \in RunIds, c \in Cells : EmbFail(r, c)

Spec == Init /\ [][Next]_vars

\* ------------------------------------------------ the poll loop, unbounded
\* The timer keeps firing every second (line 453) for as long as the notebook
\* is open: a poll that the event budget does not count. Here every poll is
\* answered and its run ends within the second, before the next tick.
PollFree(r) == InFlight = {} /\ Poll(r) /\ UNCHANGED events

\* Cell edits have stopped; the provider fails at most MaxEvents times.
NextLive ==
  \/ \E r \in RunIds : PollFree(r)
  \/ \E r \in RunIds : GetCatch(r)
  \/ \E r \in RunIds : GetThen(r)
  \/ \E w \in writes : WriteLand(w)
  \/ \E r \in RunIds, c \in Cells : HashFound(r, c)
  \/ \E r \in RunIds, c \in Cells : EmbFound(r, c)
  \/ \E r \in RunIds, c \in Cells : EmbNew(r, c)
  \/ \E r \in RunIds, c \in Cells : HashNew(r, c)
  \/ \E r \in RunIds, c \in Cells : EmbFail(r, c)

\* The timer fires again and again, every request is answered, every await
\* resolves and every save reaches the server.
Fairness ==
  /\ WF_vars(\E r \in RunIds : PollFree(r))
  /\ \A r \in RunIds : WF_vars(GetCatch(r)) /\ WF_vars(GetThen(r))
  /\ WF_vars(\E w \in writes : WriteLand(w))
  /\ \A r \in RunIds, c \in Cells :
       /\ WF_vars(HashFound(r, c)) /\ WF_vars(HashNew(r, c))
       /\ WF_vars(EmbFound(r, c)) /\ WF_vars(EmbNew(r, c))

LiveSpec == Init /\ [][NextLive]_vars /\ Fairness

\* ---------------------------------------------- the contents service failing
\* contents.save rejects: the file stays as it is. Nothing awaits or catches
\* the promise (lines 415-419, 446-450).
WriteFail(w) ==
  /\ w \in writes
  /\ writes' = writes \ {w}
  /\ UNCHANGED <<present, source, fileExists, fileContent, embeddings,
                 embeddingsSet, embeddingsOf, runs, last, events, uiVars, docVars, svcVars>>

\* Every save fails, polls are served one after the other, the provider
\* always answers and no cell changes.
NextSaveFails ==
  \/ \E r \in RunIds : PollFree(r)
  \/ \E r \in RunIds : GetCatch(r)
  \/ \E r \in RunIds : GetThen(r)
  \/ \E w \in writes : WriteFail(w)
  \/ \E r \in RunIds, c \in Cells : HashFound(r, c)
  \/ \E r \in RunIds, c \in Cells : EmbFound(r, c)
  \/ \E r \in RunIds, c \in Cells : EmbNew(r, c)
  \/ \E r \in RunIds, c \in Cells : HashNew(r, c)

FairnessSaveFails ==
  /\ WF_vars(\E r \in RunIds : PollFree(r))
  /\ \A r \in RunIds : WF_vars(GetCatch(r)) /\ WF_vars(GetThen(r))
  /\ WF_vars(\E w \in writes : WriteFail(w))
  /\ \A r \in RunIds, c \in Cells :
        /\ WF_vars(HashFound(r, c)) /\ WF_vars(HashNew(r, c))
        /\ WF_vars(EmbFound(r, c)) /\ WF_vars(EmbNew(r, c))

SpecSaveFails == Init /\ [][NextSaveFails]_vars /\ FairnessSaveFails

\* ------------------------------------------------------------ AI sessions
\* One code cell, the active one. A session is the closure of one execution of
\* 'pretzelai:replace-code' that opened the input box (kind "ask") or of one
\* handleFixError call (kind "fix").
FreeSessions == {s \in SessIds : sess[s].kind = "none"}
NewSession == CHOOSE s \in FreeSessions : \A q \in FreeSessions : s <= q
Attached(s) == \E i \in 1..Len(containers) : containers[i] = s
Without(seq, s) == SelectSeq(seq, LAMBDA x : x # s)
Awaiting(s) == sess[s].pc \in {"tagging", "ranking"}

\* A toggle that removes the container and leaves the status elements.
ToggleRemoveKeepsStatus ==
  LET s == Head(containers) IN
  /\ containers' = Tail(containers)
  /\ statusEls' = statusEls
  /\ sess' = [sess EXCEPT ![s].pc = IF @ = "input" THEN "removed" ELSE @,
                          ![s].torn = (sess[s].kind = "ask" /\ Awaiting(s))]

\* The `embeddings` variable as the handler reads it for getTopSimilarities
\* (lines 298-305, 738-745).
Snapshot ==
  [called |-> TRUE, set |-> embeddingsSet, of |-> embeddingsOf,
   store |-> embeddings]
\* Whether this step takes a run slot out of idle.
StartsRefresh == \E r \in RunIds : runs[r].st = "idle" /\ runs'[r].st # "idle"

\* commands.addCommand execute (lines 592-640). With a container in the cell:
\* the first one is removed, and every status element with it (lines 600-621);
\* the handler of the session it belonged to is not told. Without one: a new
\* status element, container and input box (lines 623-647).
ToggleRemove ==
  LET s == Head(containers) IN
  /\ containers' = Tail(containers)
  /\ statusEls' = {}
  /\ sess' = [sess EXCEPT ![s].pc = IF @ = "input" THEN "removed" ELSE @,
                          ![s].torn = (sess[s].kind = "ask" /\ Awaiting(s))]

OpenInput ==
  /\ FreeSessions # {}
  /\ containers' = <<NewSession>>
  /\ statusEls' = statusEls \cup {NewSession}
  /\ sess' = [sess EXCEPT ![NewSession] =
                [NoSession EXCEPT !.kind = "ask", !.pc = "input", !.input = TRUE,
                                  !.doc = notebook, !.cell = activeCell]]

ExecuteCommand ==
  /\ IF containers # <<>> THEN ToggleRemove ELSE OpenInput
  /\ UNCHANGED <<outputs, fixButton, embVars, docVars, svcVars>>

\* removeHandler (lines 714-727): the Remove button is inside the input box.
RemoveClick(s) ==
  /\ sess[s].pc = "input" /\ Attached(s)
  /\ containers' = Without(containers, s)
  /\ statusEls' = {}
  /\ sess' = [sess EXCEPT ![s].pc = "removed"]
  /\ UNCHANGED <<outputs, fixButton, embVars, docVars, svcVars>>

\* handleSubmit up to its first await (lines 731-736). With an empty
\* instruction nothing is awaited and nothing else is done.
SubmitClick(s, empty) ==
  /\ sess[s].pc = "input" /\ Attached(s)
  /\ UNCHANGED <<containers, statusEls, outputs, fixButton, embVars, docVars, svcVars>>
  /\ sess' = [sess EXCEPT ![s].input = FALSE,
                          ![s].status = "Calculating embeddings...",
                          ![s].pc = IF empty THEN "stuck" ELSE "tagging",
                          ![s].refreshed = StartsRefresh]

\* A handler that passes the id of whichever cell is active at the call.
TaggedDoneExcludesActive(s) ==
  /\ sess[s].kind = "ask" /\ sess[s].pc = "tagging"
  /\ UNCHANGED <<containers, statusEls, outputs, fixButton, embVars, docVars, svcVars>>
  /\ sess' = [sess EXCEPT ![s].pc = "ranking", ![s].snap = Snapshot,
                          ![s].k = NUMBER_OF_SIMILAR_CELLS, ![s].via = Call,
                          ![s].exclude = activeCell,
                          ![s].refreshed = @ \/ StartsRefresh]

\* processTaggedVariables resolved; getTopSimilarities is called with the id
\* of the closure's `activeCell` (lines 736-745).
TaggedDone(s) ==
  /\ sess[s].kind = "ask" /\ sess[s].pc = "tagging"
  /\ UNCHANGED <<containers, statusEls, outputs, fixButton, embVars, docVars, svcVars>>
  /\ sess' = [sess EXCEPT ![s].pc = "ranking", ![s].snap = Snapshot,
                          ![s].k = NUMBER_OF_SIMILAR_CELLS, ![s].via = Call,
                          ![s].exclude = sess[s].cell,
                          ![s].refreshed = @ \/ StartsRefresh]

\* getTopSimilarities resolved in handleSubmit (lines 746-786): the prompt is
\* generated, the diff editor rendered into the container and openAiStream
\* called, whether or not the container is still in the cell.
SubmitRanked(s) ==
  /\ sess[s].kind = "ask" /\ sess[s].pc = "ranking"
  /\ sess' = [sess EXCEPT ![s].editor = TRUE, ![s].pc = "streaming"]
  /\ UNCHANGED <<containers, statusEls, outputs, fixButton, embVars, docVars, svcVars>>

\* getTopSimilarities rejected in handleSubmit (lines 787-789): the catch
\* removes the container (removeChild throws when it is no longer a child).
SubmitRankFailed(s) ==
  /\ sess[s].kind = "ask" /\ sess[s].pc = "ranking"
  /\ containers' = Without(containers, s)
  /\ sess' = [sess EXCEPT ![s].pc = "aborted", ![s].rankFailed = TRUE]
  /\ UNCHANGED <<statusEls, outputs, fixButton, embVars, docVars, svcVars>>

\* The cell's outputs change and hold an error (lines 172-186): the button is
\* put, or put again, into the rendered error output (lines 203-225).
CellError ==
  /\ outputs # "error" \/ ~fixButton
  /\ outputs' = "error"
  /\ fixButton' = TRUE
  /\ UNCHANGED <<containers, statusEls, sess, embVars, docVars, svcVars>>

\* The button's onclick and handleFixError up to its await (lines 226-305),
\* on the cell with the error output, taken to be the active one:
\* getTopSimilarities is called with `cellModel.id`.
FixErrorClick ==
  /\ fixButton /\ outputs = "error" /\ FreeSessions # {}
  /\ fixButton' = FALSE
  /\ statusEls' = statusEls \cup {NewSession}
  /\ UNCHANGED <<containers, outputs, embVars, docVars, svcVars>>
  /\ sess' = [sess EXCEPT ![NewSession] =
                [NoSession EXCEPT !.kind = "fix", !.pc = "ranking",
                                  !.status = "Calculating embeddings...",
                                  !.doc = notebook, !.snap = Snapshot,
                                  !.cell = activeCell,
                                  !.k = NUMBER_OF_SIMILAR_CELLS, !.via = Call,
                                  !.exclude = activeCell,
                                  !.refreshed = StartsRefresh]]

\* getTopSimilarities resolved in handleFixError (lines 306-346): a container
\* is appended to the cell, the diff editor rendered, openAiStream called.
FixRanked(s) ==
  /\ sess[s].kind = "fix" /\ sess[s].pc = "ranking"
  /\ containers' = Append(containers, s)
  /\ sess' = [sess EXCEPT ![s].editor = TRUE, ![s].pc = "streaming"]
  /\ UNCHANGED <<statusEls, outputs, fixButton, embVars, docVars, svcVars>>

\* getTopSimilarities rejected in handleFixError: nothing catches it.
FixRankFailed(s) ==
  /\ sess[s].kind = "fix" /\ sess[s].pc = "ranking"
  /\ sess' = [sess EXCEPT ![s].pc = "aborted", ![s].rankFailed = TRUE]
  /\ UNCHANGED <<containers, statusEls, outputs, fixButton, embVars, docVars, svcVars>>

\* openAiStream resolved: handleFixError clears the outputs (lines 347-350),
\* and the rendered error output goes, with the button inside it; handleSubmit
\* does not look at the promise.
StreamResolved(s) ==
  /\ sess[s].pc = "streaming"
  /\ sess' = [sess EXCEPT ![s].pc = "completed"]
  /\ outputs' = IF sess[s].kind = "fix" THEN "cleared" ELSE outputs
  /\ fixButton' = IF sess[s].kind = "fix" THEN FALSE ELSE fixButton
  /\ UNCHANGED <<containers, statusEls, embVars, docVars, svcVars>>

\* A rejection handler that clears the outputs as the resolution handler does.
StreamRejectedClears(s) ==
  /\ sess[s].pc = "streaming"
  /\ sess' = [sess EXCEPT ![s].pc = "failed"]
  /\ outputs' = IF sess[s].kind = "fix" THEN "cleared" ELSE outputs
  /\ UNCHANGED <<containers, statusEls, fixButton, embVars, docVars, svcVars>>

\* openAiStream rejected: handleFixError logs the error (lines 351-353).
StreamRejected(s) ==
  /\ sess[s].pc = "streaming"
  /\ sess' = [sess EXCEPT ![s].pc = "failed"]
  /\ UNCHANGED <<containers, statusEls, outputs, fixButton, embVars, docVars, svcVars>>

NextUI ==
  \/ ExecuteCommand
  \/ \E s \in SessIds : RemoveClick(s)
  \/ \E s \in SessIds, empty \in BOOLEAN : SubmitClick(s, empty)
  \/ \E s \in SessIds : TaggedDone(s)
  \/ \E s \in SessIds : SubmitRanked(s)
  \/ \E s \in SessIds : SubmitRankFailed(s)
  \/ CellError
  \/ FixErrorClick
  \/ \E s \in SessIds : FixRanked(s)
  \/ \E s \in SessIds : FixRankFailed(s)
  \/ \E s \in SessIds : StreamResolved(s)
  \/ \E s \in SessIds : StreamRejected(s)

SpecUI == Init /\ [][NextUI]_vars

\* The instruction flow alone, with the continuations of handleSubmit's
\* awaits (lines 736 and 738) and the end of a stream taken eventually; what
\* the user does (the command, the buttons) is not forced.
NextSubmit ==
  \/ ExecuteCommand
  \/ \E s \in SessIds : RemoveClick(s)
  \/ \E s \in SessIds, empty \in BOOLEAN : SubmitClick(s, empty)
  \/ \E s \in SessIds : TaggedDone(s)
  \/ \E s \in SessIds : SubmitRanked(s)
  \/ \E s \in SessIds : SubmitRankFailed(s)
  \/ \E s \in SessIds : StreamResolved(s)
  \/ \E s \in SessIds : StreamRejected(s)

FairnessSubmit ==
  \A s \in SessIds :
     /\ WF_vars(TaggedDone(s))
     /\ WF_vars(SubmitRanked(s) \/ SubmitRankFailed(s))
     /\ WF_vars(StreamResolved(s) \/ StreamRejected(s))

SpecSubmit == Init /\ [][NextSubmit]_vars /\ FairnessSubmit
\* ------------------------------------------------------------ two notebooks
\* The user brings the other notebook to the front (notebookTracker's
\* currentWidget and activeCell change): its cells and its embeddings file take
\* the place of the front notebook's. Here the switch is made between polls
\* and between interactions.
Quiet ==
  /\ InFlight = {} /\ writes = {} /\ containers = <<>>
  /\ \A s \in SessIds : sess[s].pc \notin {"input", "tagging", "ranking", "streaming"}

SwitchNotebook ==
  /\ Quiet
  /\ notebook' = IF notebook = "n1" THEN "n2" ELSE "n1"
  /\ present' = background.present
  /\ source' = background.source
  /\ fileExists' = background.fileExists
  /\ fileContent' = background.fileContent
  /\ background' = [present |-> present, source |-> source,
                    fileExists |-> fileExists, fileContent |-> fileContent]
  /\ activeCell' = "c1"
  /\ last' = [last EXCEPT !.run.still = FALSE]
  /\ UNCHANGED <<writes, embeddings, embeddingsSet, embeddingsOf, runs, events,
                 uiVars, svcVars>>

\* The user makes another cell of the notebook the active one.
ActivateCell(c) ==
  /\ c \in present /\ c # activeCell
  /\ activeCell' = c
  /\ UNCHANGED <<notebook, background, embVars, uiVars, svcVars>>

\* No interaction has been started yet.
FirstInteraction == FreeSessions = SessIds

\* Polls served one after the other on whichever notebook is in front, and
\* one interaction, up to the start of its stream.
NextDocs ==
  \/ SwitchNotebook
  \/ \E c \in Cells : ActivateCell(c)
  \/ \E r \in RunIds : PollFree(r)
  \/ \E r \in RunIds : GetCatch(r)
  \/ \E r \in RunIds : GetThen(r)
  \/ \E w \in writes : WriteLand(w)
  \/ \E r \in RunIds, c \in Cells : HashFound(r, c)
  \/ \E r \in RunIds, c \in Cells : EmbFound(r, c)
  \/ \E r \in RunIds, c \in Cells : EmbNew(r, c)
  \/ \E r \in RunIds, c \in Cells : HashNew(r, c)
  \/ FirstInteraction /\ ExecuteCommand
  \/ \E s \in SessIds, empty \in BOOLEAN : SubmitClick(s, empty)
  \/ \E s \in SessIds : TaggedDone(s)
  \/ \E s \in SessIds : SubmitRanked(s)
  \/ \E s \in SessIds : SubmitRankFailed(s)
  \/ FirstInteraction /\ CellError
  \/ FirstInteraction /\ FixErrorClick
  \/ \E s \in SessIds : FixRanked(s)
  \/ \E s \in SessIds : FixRankFailed(s)

SpecDocs == Init /\ [][NextDocs]_vars

\* --------------------------------------------------------------- settings
Services == {"OpenAI API key", "Use Azure API", "Use Pretzel AI Server"}

\* loadAIClient (lines 124-138): the client it assigns, by kind.
loadAIClient(service) ==
  IF service = "OpenAI API key" THEN "OpenAI"
  ELSE IF service = "Use Azure API" THEN "Azure"
  ELSE "null"

\* The user saves another AI service; the pluginChanged handler calls
\* loadSettings (lines 142-170), which awaits settingRegistry.load(PLUGIN_ID).
\* One loadSettings call is in flight at a time.
PluginChanged(v) ==
  /\ loading = "idle" /\ v # registry
  /\ events < MaxReloads
  /\ events' = events + 1
  /\ registry' = v
  /\ loading' = "plugin"
  /\ UNCHANGED <<present, source, fileExists, fileContent, writes, embeddings,
                 embeddingsSet, embeddingsOf, runs, last>>
  /\ UNCHANGED <<aiService, aiClient, uiVars, docVars>>

\* The first await of loadSettings resolved: lines 93-110 assign aiService
\* and await the notification settings.
SettingsLoaded ==
  /\ loading = "plugin"
  /\ aiService' = registry
  /\ loading' = "cookie"
  /\ UNCHANGED <<registry, aiClient, embVars, uiVars, docVars>>

\* The first await rejected: the catch logs, nothing was assigned.
SettingsLoadFailed ==
  /\ loading = "plugin"
  /\ loading' = "idle"
  /\ UNCHANGED <<registry, aiService, aiClient, embVars, uiVars, docVars>>

\* The second await resolved: lines 111-117 reach loadAIClient().
CookieLoaded ==
  /\ loading = "cookie"
  /\ aiClient' = loadAIClient(aiService)
  /\ loading' = "idle"
  /\ UNCHANGED <<registry, aiService, embVars, uiVars, docVars>>

\* The second await rejected (or lines 111-115 threw): the catch of lines
\* 118-120 logs, and loadAIClient is not called.
CookieLoadFailed ==
  /\ loading = "cookie"
  /\ loading' = "idle"
  /\ UNCHANGED <<registry, aiService, aiClient, embVars, uiVars, docVars>>

NextSettings ==
  \/ \E v \in Services : PluginChanged(v)
  \/ SettingsLoaded
  \/ SettingsLoadFailed
  \/ CookieLoaded
  \/ CookieLoadFailed
  \/ \E r \in RunIds : PollFree(r)
  \/ \E r \in RunIds : GetCatch(r)
  \/ \E r \in RunIds : GetThen(r)
  \/ \E w \in writes : WriteLand(w)
  \/ \E r \in RunIds, c \in Cells : HashFound(r, c)
  \/ \E r \in RunIds, c \in Cells : EmbFound(r, c)
  \/ \E r \in RunIds, c \in Cells : EmbNew(r, c)
  \/ \E r \in RunIds, c \in Cells : HashNew(r, c)
  \/ FirstInteraction /\ CellError
  \/ FirstInteraction /\ FixErrorClick
  \/ \E s \in SessIds : FixRanked(s)
  \/ \E s \in SessIds : FixRankFailed(s)

SpecSettings == Init /\ [][NextSettings]_vars

\* ================================================================= claims
LoadedEntry(run, c) == run.loaded[findIndex(run.loaded, c)]
Sound(e) ==
  e.hash = calculateHash(e.source) /\ e.embedding = openaiEmbeddings(e.source)
UniqueIds(arr) == \A c \in Cells : Count(arr, c) <= 1
KeptAreLoaded(run) ==
  \A c \in run.given :
     run.task[c].outcome = "kept" => LoadedEntry(run, c) \in Entries(run.newArr)
StreamStarted(s) == sess[s].pc \in {"streaming", "completed", "failed"}

\* The run that finished last was the second of two in succession: neither
\* overlapped another poll, no cell was added, removed or edited from the
\* start of the first to the end of the second, and the second loaded what
\* the first left in the file.
InSuccession ==
  /\ last.valid /\ last.run.alone /\ last.run.still
  /\ last.run.prev.some /\ last.run.prev.clean
  /\ last.run.loaded = last.run.prev.result
NoProviderFailure == ~last.run.failed /\ last.run.prev.nofail

C2_StalenessDetection ==
  (last.valid /\ last.run.given \subseteq Ids(last.run.loaded)) =>
    \A c \in last.run.given :
       LET t == last.run.task[c]
           e == LoadedEntry(last.run, c)
       IN /\ (t.outcome \in {"computed", "failed"}) <=> (t.hash # e.hash)
          /\ (t.hash = e.hash) =>
               (e \in Entries(last.run.newArr) /\ Count(last.run.newArr, c) = 1)

\* Nothing is in flight and the file holds what the run that finished last
\* left there.
Landed ==
  /\ InFlight = {} /\ writes = {}
  /\ fileContent = (IF last.wrote THEN last.run.newArr ELSE last.run.loaded)

\* C3: once a run that started after a cell was removed has completed and its
\* write has landed, neither the embeddings file nor the `embeddings` variable
\* used for ranking holds an entry with the removed cell's id.
C3_GarbageCollection ==
  (last.valid /\ last.run.alone /\ last.run.still /\ Landed) =>
    \A c \in Cells \ present :
       c \notin Ids(fileContent) /\ c \notin Ids(embeddings)

\* C4: every entry createEmbeddings puts into a new array has
\* hash = calculateHash(source) and the provider's embedding of that source.
C4_EntryIntegrity ==
  /\ \A r \in RunIds : \A e \in Entries(runs[r].newArr) : Sound(e)
  /\ \A e \in Entries(last.run.newArr) : Sound(e)

\* C5: every array a run saves has entries unique by id, each with the id of
\* a cell that run was given, and each kept entry is the entry the run loaded
\* for that same cell.
C5_OverlapKeepsStoreSound ==
  (last.valid /\ last.wrote) =>
    /\ UniqueIds(last.run.newArr)
    /\ Ids(last.run.newArr) \subseteq last.run.given
    /\ KeptAreLoaded(last.run)

\* C6: the cell has at most one .pretzelParentContainerAI and at most one
\* stream running against it.
C6_OneSessionPerCell ==
  /\ Len(containers) <= 1
  /\ Cardinality({s \in SessIds : sess[s].pc = "streaming"}) <= 1

\* C7: a session whose container was removed while handleSubmit was awaiting
\* processTaggedVariables or getTopSimilarities renders no diff editor and
\* calls openAiStream not at all.
C7_CancelObservedAtStreamStart ==
  \A s \in SessIds : sess[s].torn => (~sess[s].editor /\ ~StreamStarted(s))

\* C8: in handleSubmit and in handleFixError, an interaction whose
\* getTopSimilarities call failed has gone on to call openAiStream.
C8_GracefulDegradation ==
  \A s \in SessIds : sess[s].rankFailed => StreamStarted(s)

\* C9: a run in which a provider call failed completes with a new array that
\* holds exactly one entry for each cell that was kept or recomputed, the kept
\* ones being the loaded entries of those cells, and no entry for a cell whose
\* recomputation failed.
C9_FailureIsolation ==
  (last.valid /\ last.run.failed) =>
    /\ Ids(last.run.newArr) =
         {c \in last.run.given : last.run.task[c].outcome \in {"kept", "computed"}}
    /\ UniqueIds(last.run.newArr)
    /\ KeptAreLoaded(last.run)

\* The file holds an entry of cell c with the hash of its current source.
Fresh(c) ==
  \E i \in 1..Len(fileContent) :
     fileContent[i].id = c /\ fileContent[i].hash = calculateHash(source[c])
FailedIn(c) == last.valid /\ last.run.task[c].outcome = "failed"

\* C10: a cell whose recomputation failed in a run has no entry in the array
\* that run built, and, polls being served one after the other and the
\* provider failing only finitely often, the file eventually holds an entry of
\* that cell with the hash of its source.
C10_RetryUntilFresh ==
  /\ [](\A c \in Cells : FailedIn(c) => c \notin Ids(last.run.newArr))
  /\ \A c \in Cells : FailedIn(c) ~> Fresh(c)

ProviderBusy ==
  \E r \in RunIds, c \in Cells : runs[r].task[c].pc \in {"embFound", "embNew"}
\* The file holds exactly one entry, a fresh one, for every non-empty cell,
\* no provider call is pending and no write is in flight.
Converged ==
  /\ Ids(fileContent) = NonEmptyCells
  /\ UniqueIds(fileContent)
  /\ \A c \in NonEmptyCells : Fresh(c)
  /\ ~ProviderBusy /\ writes = {}

\* C11: with no cell edited, polls served one after the other and the
\* provider failing only finitely often, the system eventually reaches and
\* stays in a state where the file holds exactly one fresh entry for every
\* non-empty cell and no provider call or write is issued any more.
C11_Convergence == <>[]Converged

HashCount(arr, h) == Cardinality({i \in 1..Len(arr) : arr[i].hash = h})
SameHashBag(a, b) ==
  \A h \in Hashes(a) \cup Hashes(b) : HashCount(a, h) = HashCount(b, h)

\* C12: a completed run whose new array has a multiset of hashes other than
\* that of the array it loaded has saved the new array.
C12_ChangedContentPersisted ==
  (last.valid /\ ~SameHashBag(last.run.newArr, last.run.loaded)) => last.wrote

\* C13: executing the command on a cell with a container removes the first
\* container and every status element, opens no session and no input box and
\* moves no session into retrieval or streaming; executing it on a cell
\* without a container leaves the cell with exactly one container.
C13_ToggleRemove ==
  [][ExecuteCommand =>
       IF containers # <<>>
       THEN /\ containers' = Tail(containers)
            /\ statusEls' = {}
            /\ \A s \in SessIds :
                  /\ sess'[s].kind = sess[s].kind
                  /\ sess'[s].input = sess[s].input
                  /\ sess'[s].editor = sess[s].editor
                  /\ sess'[s].pc \in {"tagging", "ranking", "streaming"}
                       => sess'[s].pc = sess[s].pc
       ELSE Len(containers') = 1]_vars

\* A session whose container the toggle removed while it was awaiting, with
\* no status element left in the cell.
C13_Witness ==
  \E s \in SessIds : sess[s].torn /\ ~Attached(s) /\ statusEls = {}

\* C14: the cell's outputs become cleared only in the step in which the
\* openAiStream promise of a fix-error session resolves, and the step in which
\* a stream rejects leaves the outputs as they are.
C14_OutputClearing ==
  [][/\ (outputs' = "cleared" /\ outputs # "cleared") =>
          \E s \in SessIds : /\ sess[s].kind = "fix"
                             /\ sess[s].pc = "streaming"
                             /\ sess'[s].pc = "completed"
     /\ \A s \in SessIds :
           (sess[s].pc = "streaming" /\ sess'[s].pc = "failed") =>
              outputs' = outputs]_vars

\* One fix-error session completed and the outputs are cleared; another one's
\* stream was rejected.
C14_Witness ==
  /\ outputs = "cleared"
  /\ \E s \in SessIds : sess[s].kind = "fix" /\ sess[s].pc = "completed"
  /\ \E s \in SessIds : sess[s].kind = "fix" /\ sess[s].pc = "failed"

\* C16: the handler that writes the empty store runs only for a read that
\* found no file, and only while the file holds no entries.
C16_FirstAccessInit ==
  [][\A r \in RunIds :
        GetCatch(r) => (~runs[r].found /\ fileContent = <<>>)]_vars

\* The `embeddings` variable holds an entry of cell c with the hash of its
\* current source.
InSnapshot(c) ==
  \E i \in 1..Len(embeddings) :
     embeddings[i].id = c /\ embeddings[i].hash = calculateHash(source[c])

\* C15: with every save failing, an entry a run computed for a cell
\* eventually is in the `embeddings` variable used for ranking.
C15_CacheSurvivesSaveFailure ==
  \A c \in Cells :
     (last.valid /\ last.run.task[c].outcome = "computed") ~> InSnapshot(c)

\* C17: every step leaves the `embeddings` variable as it is or assigns it,
\* whole, the array a poll loaded, and the array a poll loads is the content
\* of the file at the time of the read; the array a run is collecting is
\* never assigned to it.
C17_ReadersSeeCompleteStore ==
  [][/\ (embeddings' # embeddings \/ embeddingsSet' # embeddingsSet) =>
          \E r \in RunIds : /\ runs[r].st = "get" /\ runs[r].found
                            /\ embeddings' = runs[r].loaded
                            /\ embeddingsSet'
     /\ \A r \in RunIds :
           (runs[r].st = "idle" /\ runs'[r].st = "get") =>
              runs'[r].loaded = fileContent]_vars

\* A run is collecting, its new array is partly filled, and `embeddings` is
\* the array that run loaded.
C17_Witness ==
  \E r \in RunIds :
     /\ runs[r].st = "collect" /\ runs[r].newArr # <<>>
     /\ embeddingsSet /\ embeddings = runs[r].loaded
     /\ embeddings # runs[r].newArr

AllRuns == {runs[r] : r \in RunIds} \cup {last.run}

\* C20: the provider is never called with a source that is empty after
\* trimming, no entry of a new array has such a source, and a cell that was
\* empty when the run filtered the cells has no task and no entry in the new
\* array.
C20_EmptyCellsSkipped ==
  \A run \in AllRuns : \A c \in Cells :
     /\ run.task[c].pc \in {"embFound", "embNew"} => Trim(run.task[c].arg) # ""
     /\ \A e \in Entries(run.newArr) : Trim(e.source) # ""
     /\ (run.st # "get" /\ c \notin run.given) =>
           (run.task[c].pc = "none" /\ c \notin Ids(run.newArr))

\* C18: the `embeddings` argument an interaction passes to getTopSimilarities
\* was read from the embeddings file of the notebook of the interaction's
\* cell, and while a run is collecting, `embeddings` is a store read from the
\* file of that run's notebook.
C18_PerDocumentStore ==
  /\ \A s \in SessIds :
        (sess[s].snap.called /\ sess[s].snap.set) => sess[s].snap.of = sess[s].doc
  /\ \A r \in RunIds : runs[r].st = "collect" => embeddingsOf = runs[r].doc

\* C19: by the time an interaction has called getTopSimilarities, a step of
\* its handler has started a refresh of the embedding store.
C19_OnDemandRefresh ==
  \A s \in SessIds : sess[s].snap.called => sess[s].refreshed

\* The context an interaction retrieves: the ranker's result for the
\* arguments the handler passed (the query text does not matter here).
Context(s) ==
  getTopSimilarities("a", sess[s].snap.store, sess[s].k, sess[s].exclude)

\* C21: every interaction that has called getTopSimilarities passed
\* K = NUMBER_OF_SIMILAR_CELLS = 3 and the id of the cell whose code it edits,
\* and the context retrieved holds at most K entries, none of that cell.
C21_SelfExclusionAndK ==
  \A s \in SessIds :
     sess[s].snap.called =>
        /\ sess[s].k = 3
        /\ sess[s].exclude = sess[s].cell
        /\ Len(Context(s)) <= sess[s].k
        /\ sess[s].cell \notin Ids(Context(s))

\* An instruction was submitted on a cell whose entry is in the snapshot, and
\* by the time the ranker is called another cell is the active one.
C21_Witness ==
  \E s \in SessIds :
     /\ sess[s].kind = "ask" /\ sess[s].snap.called
     /\ sess[s].cell # activeCell /\ sess[s].doc = notebook
     /\ sess[s].cell \in Ids(sess[s].snap.store)
     /\ Context(s) # <<>>

\* C22: whenever an interaction has called getTopSimilarities, the
\* `embeddings` argument was an assigned array (possibly empty).
C22_SnapshotDefined ==
  \A s \in SessIds : sess[s].snap.called => sess[s].snap.set

\* The (aiService, aiClient) pair of a call is consistent.
Consistent(call) == call.client = loadAIClient(call.service)

\* C23: every provider call of a poll and every ranker call of an
\* interaction was issued with a client of the kind its service asks for:
\* OpenAI for 'OpenAI API key', Azure for 'Use Azure API', null otherwise.
C23_ClientMatchesService ==
  /\ \A r \in RunIds, c \in Cells :
        runs[r].task[c].via # NoCall => Consistent(runs[r].task[c].via)
  /\ \A s \in SessIds : sess[s].via # NoCall => Consistent(sess[s].via)

\* handleSubmit has been invoked for the session's input box.
Submitted(s) ==
  sess[s].kind = "ask" /\ ~sess[s].input /\ sess[s].pc # "removed"

\* C24: after handleSubmit is invoked, the session eventually starts a
\* stream or its container is removed from the cell.
C24_SubmitReachesOutcome ==
  \A s \in SessIds : Submitted(s) ~> (StreamStarted(s) \/ ~Attached(s))

=============================================================================
